---- MODULE Spec2Model ----
(***************************************************************************)
(* A model of fastapi_soap/wsdl.py: the XSD element generator              *)
(* (generate_xsd_element), the schema aggregator                           *)
(* (generate_xsd_schema_etree) and the WSDL assembler (generate_wsdl).     *)
(*                                                                         *)
(* Python objects are records with a "kind" field.  An ElementTree         *)
(* Element is a record [tag, attrib, children]; attrib is a function from  *)
(* attribute names to Python values, children a sequence of Elements.      *)
(* A call that raises returns a record [kind |-> "exception", ...].        *)
(***************************************************************************)
EXTENDS Integers, Sequences, FiniteSets, TLC

VARIABLES classes, call, args, ret

vars == <<classes, call, args, ret>>

-----------------------------------------------------------------------------
(* Bounds of the model *)

\* most fields a generated model class declares
MaxFields == 2

\* most operations of a methods mapping
MaxMethods == 2

\* depth of nested generate_xsd_element calls at which Python raises
\* RecursionError (sys.getrecursionlimit(), scaled down)
RecursionLimit == 4

-----------------------------------------------------------------------------
(* Python values *)

None == [kind |-> "NoneType"]

Str(s) == [kind |-> "str", value |-> s]

\* a plain class such as int or Decimal
Type(n) == [kind |-> "type", name |-> n]

\* a BaseXmlModel subclass, an instance of XmlModelMeta, identified by id
Model(id) == [kind |-> "XmlModelMeta", id |-> id]

\* list[T], a types.GenericAlias: not an instance of list, __name__ "list"
ListOf(t) == [kind |-> "GenericAlias", name |-> "list", arg |-> t]

\* a list object with n items
ListObject(n) == [kind |-> "list", len |-> n]

Exception(e) == [kind |-> "exception", type |-> e]

IsException(r) == r.kind = "exception"

\* bool(x)
Truthy(x) ==
    CASE x.kind = "NoneType" -> FALSE
      [] x.kind = "str" -> x.value # ""
      [] x.kind = "list" -> x.len > 0
      [] x.kind = "Element" -> Len(x.children) > 0
      [] OTHER -> TRUE

\* a or b
Or(a, b) == IF Truthy(a) THEN a ELSE b

ClassIds == {"c1", "c2"}

ClassName == [c \in ClassIds |-> IF c = "c1" THEN "Foo" ELSE "Bar"]

\* hasattr(x, "__name__")
HasName(x) == x.kind \in {"type", "XmlModelMeta", "GenericAlias"}

\* x.__name__
NameOf(x) == IF x.kind = "XmlModelMeta" THEN classes[x.id].name ELSE x.name

\* hasattr(x, "__xml_tag__")
HasXmlTag(x) == x.kind = "XmlModelMeta" /\ classes[x.id].has_xml_tag

\* isinstance(x, XmlModelMeta)
IsXmlModelMeta(x) == x.kind = "XmlModelMeta"

\* isinstance(x, list)
IsList(x) == x.kind = "list"

-----------------------------------------------------------------------------
(* ElementTree *)

Element(tag, attrib) ==
    [kind |-> "Element", tag |-> tag, attrib |-> attrib, text |-> None, children |-> <<>>]

\* element.set(key, value)
Set(element, key, value) == [element EXCEPT !.attrib = (key :> value) @@ @]

\* element.append(child)
Append_(element, child) == [element EXCEPT !.children = Append(@, child)]

\* element with every item of a sequence appended
Extend(element, items) == [element EXCEPT !.children = @ \o items]

\* element.text = text
WithText(element, text) == [element EXCEPT !.text = text]

Has(element, key) == key \in DOMAIN element.attrib

Get(element, key) == element.attrib[key]

NoAttrib == [k \in {} |-> None]

-----------------------------------------------------------------------------
(* generate_xsd_element *)

PYTHON_XSD_TYPE_MAP ==
    ("str" :> "string") @@ ("int" :> "integer") @@ ("float" :> "double") @@
    ("bool" :> "boolean") @@ ("date" :> "date") @@ ("time" :> "time") @@
    ("datetime" :> "dateTime") @@ ("AnyUrl" :> "anyURI") @@
    ("PositiveInt" :> "positiveInteger")

\* d.get(key, default)
DictGet(d, key, default) == IF key \in DOMAIN d THEN d[key] ELSE default

\* model or (field_info.annotation if field_info else None)
model_(model, field_info) ==
    Or(model, IF Truthy(field_info) THEN field_info.annotation ELSE None)

\* getattr(model, "__xml_tag__", model.__name__)
ModelTagName(model) ==
    IF HasXmlTag(model) THEN classes[model.id].xml_tag ELSE Str(NameOf(model))

\* tag_name with the precedence of an XmlEntityInfo's path and alias swapped
tag_name_AliasFirst(field_info) ==
    IF field_info.entity
    THEN Or(field_info.alias, field_info.path)
    ELSE Or(field_info.alias,
            IF field_info.has_name THEN Str(field_info.name) ELSE Str("Unknown"))

\* the tag_name of a field descriptor
tag_name(field_info) ==
    IF field_info.entity
    THEN Or(field_info.path, field_info.alias)
    ELSE Or(field_info.alias,
            IF field_info.has_name THEN Str(field_info.name) ELSE Str("Unknown"))

\* the value of the name attribute
ElementName(model, field_info) ==
    IF model # None THEN ModelTagName(model)
    ELSE IF Truthy(field_info) THEN tag_name(field_info)
    ELSE IF HasXmlTag(model_(model, field_info))
         THEN classes[model_(model, field_info).id].xml_tag
    ELSE Str("Unknown")

\* the fields iterated last to first
ModelFields_Reversed(m) ==
    [i \in 1..Len(classes[m.id].model_fields) |->
        classes[m.id].model_fields[Len(classes[m.id].model_fields) + 1 - i]]

\* model_.model_fields.items(), in declared order
ModelFields(m) == classes[m.id].model_fields

\* the scalar branch: the type attribute, or AttributeError when model_ is
\* truthy and has no __name__
SetType(xsd_element, m) ==
    IF Truthy(m) /\ ~HasName(m) THEN Exception("AttributeError")
    ELSE Set(xsd_element, "type",
             Str("xs:" \o DictGet(PYTHON_XSD_TYPE_MAP,
                                  IF Truthy(m) THEN NameOf(m) ELSE "str",
                                  "string")))

\* the cardinality attributes
SetOccurs(xsd_element, field_info) ==
    IF Truthy(field_info)
    THEN IF IsList(field_info.annotation)
         THEN Set(Set(xsd_element, "minOccurs", Str("0")), "maxOccurs", Str("unbounded"))
         ELSE IF field_info.default # "PydanticUndefined"
         THEN Set(xsd_element, "minOccurs", Str("0"))
         ELSE xsd_element
    ELSE xsd_element

RECURSIVE generate_xsd_element(_, _, _)
RECURSIVE AppendFields(_, _, _, _)

\* the loop over model_fields: sequence with one element appended per field
\* from index i on, or the exception a recursive call raised
AppendFields(sequence, fields, i, depth) ==
    IF i > Len(fields) THEN sequence
    ELSE LET tag == generate_xsd_element(None, fields[i].info, depth + 1)
         IN  IF IsException(tag) THEN tag
             ELSE AppendFields(Append_(sequence, tag), fields, i + 1, depth)

generate_xsd_element(model, field_info, depth) ==
    IF depth > RecursionLimit THEN Exception("RecursionError")
    ELSE
    LET m == model_(model, field_info)
        named == Set(Element("xs:element", NoAttrib), "name", ElementName(model, field_info))
        typed ==
            IF IsXmlModelMeta(m)
            THEN LET sequence == AppendFields(Element("xs:sequence", NoAttrib),
                                              ModelFields(m), 1, depth)
                 IN  IF IsException(sequence) THEN sequence
                     ELSE Append_(named,
                                  Append_(Element("xs:complexType", NoAttrib), sequence))
            ELSE SetType(named, m)
    IN  IF IsException(typed) THEN typed ELSE SetOccurs(typed, field_info)

-----------------------------------------------------------------------------
(* generate_xsd_schema_etree *)

nsmap ==
    ("xmlns:soap" :> Str("http://schemas.xmlsoap.org/wsdl/soap/")) @@
    ("xmlns:wsdl" :> Str("http://schemas.xmlsoap.org/wsdl/")) @@
    ("xmlns:xs" :> Str("http://www.w3.org/2001/XMLSchema")) @@
    ("xmlns:wsdlsoap" :> Str("http://schemas.xmlsoap.org/wsdl/soap/"))

RECURSIVE AppendModels(_, _, _)

\* the loop over models from index i on: a generated element is appended
\* when it is truthy, that is when it has children
AppendModels(schema, models, i) ==
    IF i > Len(models) THEN schema
    ELSE LET tag == generate_xsd_element(models[i], None, 1)
         IN  IF IsException(tag) THEN tag
             ELSE AppendModels(IF Truthy(tag) THEN Append_(schema, tag) ELSE schema,
                               models, i + 1)

generate_xsd_schema_etree(models) == AppendModels(Element("xs:schema", nsmap), models, 1)

-----------------------------------------------------------------------------
(* generate_wsdl *)

RECURSIVE Flatten(_)

\* the concatenation of a sequence of sequences
Flatten(ss) == IF ss = <<>> THEN <<>> ELSE Head(ss) \o Flatten(Tail(ss))

\* action.title() on the role keys
Title(action) ==
    CASE action = "request" -> "Request"
      [] action = "response" -> "Response"

\* the message name without the operation name
message_name_ActionOnly(method, action) == Title(action)

\* f"{method}{action.title()}"
message_name(method, action) == method \o Title(action)

\* f"{name}{method}"
method_name(name, method) == name \o method

\* model.model_config.get("tag", model.__name__)
element_type(model) == DictGet(classes[model.id].model_config, "tag", Str(NameOf(model)))

\* "input" if action == "request" else "output"
wsdl_action(action) == IF action = "request" THEN "input" ELSE "output"

\* the items of models.items() the inner loop does not skip
Present_(models) == SelectSeq(models, LAMBDA r : r.model # None)

\* the wsdl:message elements of one operation
Messages(method, models) ==
    [j \in 1..Len(Present_(models)) |->
        Append_(Element("wsdl:message",
                        "name" :> Str(message_name(method, Present_(models)[j].action))),
                Element("wsdl:part",
                        ("name" :> Str("parameters")) @@
                        ("element" :> element_type(Present_(models)[j].model))))]

\* input and output elements emitted for every role, absent models included
PortTypeActions_BeforeSkip(method, models) ==
    [j \in 1..Len(models) |->
        Element("wsdl:" \o wsdl_action(models[j].action),
                "message" :> Str(message_name(method, models[j].action)))]

\* the input and output children of one portType operation
PortTypeActions(method, models) ==
    [j \in 1..Len(Present_(models)) |->
        Element("wsdl:" \o wsdl_action(Present_(models)[j].action),
                "message" :> Str(message_name(method, Present_(models)[j].action)))]

\* the input and output children of one binding operation
BindingActions(method, models) ==
    [j \in 1..Len(Present_(models)) |->
        Append_(Element("wsdl:" \o wsdl_action(Present_(models)[j].action),
                        "message" :> Str(message_name(method, Present_(models)[j].action))),
                Element("soap:body", "use" :> Str("literal")))]

\* the wsdl:binding element of one operation
Binding(name, method, models) ==
    Extend(Element("wsdl:binding",
                   ("name" :> Str(method_name(name, method))) @@ ("type" :> Str(name))),
           <<Element("soap:binding",
                     ("style" :> Str("document")) @@
                     ("transport" :> Str("http://schemas.xmlsoap.org/soap/http"))),
             Extend(Append_(Element("wsdl:operation",
                                    "name" :> Str(method_name(name, method))),
                            Element("soap:operation", "soapAction" :> Str(method))),
                    BindingActions(method, models))>>)

\* str(request.url.replace(query="", fragment="")).rstrip("/") + "/" + method:
\* the URL without its query, its fragment and its trailing slashes, which is
\* the base of the URL record
Location(request, method) == request.url.base \o "/" \o method

\* the wsdl:port element of one operation
Port(name, method, request) ==
    Append_(Element("wsdl:port",
                    ("name" :> Str(method_name(name, method))) @@
                    ("binding" :> Str(method_name(name, method)))),
            Element("soap:address", "location" :> Str(Location(request, method))))

\* the models added to types, as a set of class ids
Types(methods) ==
    UNION {{Present_(methods[i].models)[j].model.id :
               j \in 1..Len(Present_(methods[i].models))} :
           i \in 1..Len(methods)}

\* the iteration orders a set can have: the sequences listing each member once
Orders(S) ==
    {p \in [1..Cardinality(S) -> S] : \A a, b \in 1..Cardinality(S) : p[a] = p[b] => a = b}

\* every registered model once per reference, in order of reference
ListOfTypes_NoDedup(methods, order) ==
    Flatten([i \in 1..Len(methods) |->
                [j \in 1..Len(Present_(methods[i].models)) |->
                    Present_(methods[i].models)[j].model]])

\* list(types): the set in its iteration order, which follows the hashes of
\* the classes; order is that order, a listing of the members of types
ListOfTypes(methods, order) == [j \in 1..Len(order) |-> Model(order[j])]

generate_wsdl(name, methods, request, documentation, order) ==
    LET schema == generate_xsd_schema_etree(ListOfTypes(methods, order))
        types_element == Append_(Element("wsdl:types", NoAttrib), schema)
        port_type_element ==
            Extend(Element("wsdl:portType", "name" :> Str(name)),
                   [i \in 1..Len(methods) |->
                       Extend(Element("wsdl:operation",
                                      "name" :> Str(method_name(name, methods[i].method))),
                              PortTypeActions(methods[i].method, methods[i].models))])
        service_element ==
            Extend(Element("wsdl:service", "name" :> Str(name)),
                   [i \in 1..Len(methods) |-> Port(name, methods[i].method, request)])
        wsdl == Extend(Element("wsdl:definitions", ("name" :> Str(name)) @@ nsmap),
                       <<WithText(Element("wsdl:documentation", NoAttrib), Str(documentation)),
                         types_element, port_type_element, service_element>>
                       \o Flatten([i \in 1..Len(methods) |->
                                      <<Binding(name, methods[i].method, methods[i].models)>>
                                      \o Messages(methods[i].method, methods[i].models)]))
    IN  IF IsException(schema) THEN schema ELSE wsdl

-----------------------------------------------------------------------------
(* Inputs *)

OptStrings(S) == {None} \cup {Str(s) : s \in S}

Annotations ==
    {None, Type("int"), Type("Decimal"), ListOf("int"), ListObject(0), ListObject(1)}
    \cup {Model(c) : c \in ClassIds}

FieldInfo(entity, path, alias, has_name, name, annotation, default, default_factory) ==
    [kind |-> "FieldInfo", entity |-> entity, path |-> path, alias |-> alias,
     has_name |-> has_name, name |-> name, annotation |-> annotation,
     default |-> default, default_factory |-> default_factory]

\* (default, default_factory): pydantic refuses a field that sets both
Defaults == {<<"PydanticUndefined", FALSE>>, <<"value", FALSE>>, <<"PydanticUndefined", TRUE>>}

\* every field descriptor: XmlEntityInfo (path, alias) or plain (alias, name)
FieldInfos ==
    {FieldInfo(TRUE, p, a, FALSE, "", t, d[1], d[2]) :
        p \in OptStrings({"", "p"}), a \in OptStrings({"", "a"}),
        t \in Annotations, d \in Defaults}
    \cup
    {FieldInfo(FALSE, None, a, n # "", n, t, d[1], d[2]) :
        a \in OptStrings({"", "a"}), n \in {"", "n"},
        t \in Annotations, d \in Defaults}

Field(n, info) == [field_name |-> n, info |-> info]

Class(n, has_xml_tag, xml_tag, model_config, model_fields) ==
    [name |-> n, has_xml_tag |-> has_xml_tag, xml_tag |-> xml_tag,
     model_config |-> model_config, model_fields |-> model_fields]

\* two fixed classes: Foo nests Bar, Bar is flat
ExampleClasses ==
    ("c1" :> Class("Foo", TRUE, None, NoAttrib,
                   <<Field("x", FieldInfo(FALSE, None, Str("x"), FALSE, "", Type("int"),
                                          "PydanticUndefined", FALSE)),
                     Field("bar", FieldInfo(TRUE, Str("bar"), None, FALSE, "", Model("c2"),
                                            "PydanticUndefined", FALSE))>>))
    @@
    ("c2" :> Class("Bar", TRUE, Str("bar"), NoAttrib,
                   <<Field("y", FieldInfo(FALSE, None, None, FALSE, "", Type("str"),
                                          "value", FALSE))>>))

\* the fields a generated class declares: a required int, a nested Foo, a
\* nested Bar, and a list of int with a default
ClassFieldInfos ==
    {FieldInfo(FALSE, None, Str("a"), FALSE, "", Type("int"), "PydanticUndefined", FALSE),
     FieldInfo(TRUE, Str("b"), None, FALSE, "", Model("c1"), "PydanticUndefined", FALSE),
     FieldInfo(TRUE, Str("c"), None, FALSE, "", Model("c2"), "value", FALSE),
     FieldInfo(FALSE, None, Str("d"), FALSE, "", ListOf("int"), "value", FALSE)}

\* the declared name of the i-th field
FieldNameAt == <<"f1", "f2", "f3", "f4">>

FieldSeqs == UNION {[1..n -> ClassFieldInfos] : n \in 0..MaxFields}

\* (hasattr __xml_tag__, its value): BaseXmlModel.__init_subclass__ sets
\* __xml_tag__ to the tag keyword, None when the class gives none; only a
\* class that bypasses it has no such attribute
XmlTags == {<<FALSE, None>>, <<TRUE, None>>, <<TRUE, Str("t")>>}

ClassDefs(c, tags, configs, seqs) ==
    {Class(ClassName[c], x[1], x[2], cfg,
           [i \in 1..Len(s) |-> Field(FieldNameAt[i], s[i])]) :
        x \in tags, cfg \in configs, s \in seqs}

\* classes is one definition of Foo out of foos and one of Bar out of bars
Defined(foos, bars) ==
    \E a \in foos, b \in bars : classes = ("c1" :> a) @@ ("c2" :> b)

-----------------------------------------------------------------------------
(* Calls of generate_xsd_element with a field descriptor, or with nothing *)

InitField ==
    /\ classes = ExampleClasses
    /\ call = "none"
    /\ args = <<>>
    /\ ret = None

CallWithField ==
    /\ call = "none"
    /\ \E f \in FieldInfos :
        /\ call' = "generate_xsd_element"
        /\ args' = [model |-> None, field_info |-> f]
        /\ ret' = generate_xsd_element(None, f, 1)
        /\ UNCHANGED classes

CallWithNothing ==
    /\ call = "none"
    /\ call' = "generate_xsd_element"
    /\ args' = [model |-> None, field_info |-> None]
    /\ ret' = generate_xsd_element(None, None, 1)
    /\ UNCHANGED classes

NextField == CallWithField \/ CallWithNothing

SpecField == InitField /\ [][NextField]_vars

-----------------------------------------------------------------------------
(* Calls of generate_xsd_element with a model class *)

InitModel ==
    /\ Defined(ClassDefs("c1", XmlTags, {NoAttrib}, FieldSeqs),
               ClassDefs("c2", XmlTags, {NoAttrib}, FieldSeqs))
    /\ call = "none"
    /\ args = <<>>
    /\ ret = None

CallWithModel ==
    /\ call = "none"
    /\ \E c \in ClassIds :
        /\ call' = "generate_xsd_element"
        /\ args' = [model |-> Model(c), field_info |-> None]
        /\ ret' = generate_xsd_element(Model(c), None, 1)
        /\ UNCHANGED classes

NextModel == CallWithModel

SpecModel == InitModel /\ [][NextModel]_vars

-----------------------------------------------------------------------------
(* Calls of generate_wsdl *)

\* models.items(): the role keys present, in either order, each with a
\* model class or None
RoleKeySeqs ==
    {<<>>, <<"request">>, <<"response">>,
     <<"request", "response">>, <<"response", "request">>}

RoleDicts ==
    UNION {{[j \in 1..Len(ks) |-> [action |-> ks[j], model |-> v[j]]] :
               v \in [1..Len(ks) -> {None} \cup {Model(c) : c \in ClassIds}]} :
           ks \in RoleKeySeqs}

\* the name of the i-th operation
MethodNameAt == <<"Add", "Sub", "Mul", "Div">>

\* methods.items(): operations with distinct names, each with its roles
MethodDict(d) == [i \in 1..Len(d) |-> [method |-> MethodNameAt[i], models |-> d[i]]]

\* the request of the description endpoint: its URL is base, then slashes,
\* then "?" query and "#" fragment
ExampleRequest ==
    [url |-> [base |-> "http://host/svc", slashes |-> "/", query |-> "x=1",
              fragment |-> "frag"]]

\* the fields of the classes the operations use.  Foo is declared with or
\* without the tag keyword, which BaseXmlModel keeps in __xml_tag__ and not
\* in model_config; Bar is declared with the tag keyword and with the same
\* tag under the "tag" key of its model_config
WsdlFieldSeqs ==
    {<<FieldInfo(FALSE, None, Str("a"), FALSE, "", Type("int"), "PydanticUndefined", FALSE)>>}

InitWsdl ==
    /\ Defined(ClassDefs("c1", {<<TRUE, None>>, <<TRUE, Str("t")>>}, {NoAttrib}, WsdlFieldSeqs),
               ClassDefs("c2", {<<TRUE, Str("t")>>}, {"tag" :> Str("t")}, WsdlFieldSeqs))
    /\ call = "none"
    /\ args = <<>>
    /\ ret = None

CallGenerateWsdl ==
    /\ call = "none"
    /\ \E n \in 0..MaxMethods : \E d \in [1..n -> RoleDicts] :
       \E order \in Orders(Types(MethodDict(d))) :
        /\ call' = "generate_wsdl"
        /\ args' = [name |-> "Calculator", methods |-> MethodDict(d),
                    request |-> ExampleRequest, documentation |-> ""]
        /\ ret' = generate_wsdl("Calculator", MethodDict(d), ExampleRequest, "", order)
        /\ UNCHANGED classes

NextWsdl == CallGenerateWsdl

SpecWsdl == InitWsdl /\ [][NextWsdl]_vars

-----------------------------------------------------------------------------
(* Properties of generate_xsd_element *)

\* generate_xsd_element(field_info=f) was called
FieldCall == call = "generate_xsd_element" /\ args.model = None /\ args.field_info # None

\* generate_xsd_element(model=M) was called
ModelCall == call = "generate_xsd_element" /\ args.model # None

\* the call returned an Element
Returned == call # "none" /\ ~IsException(ret)

\* the declared type is the repeated form list[T]
IsRepeated(t) == t.kind = "GenericAlias"

\* the declared type is neither list[T] nor a list object
NonRepeated(t) == t.kind \notin {"GenericAlias", "list"}

\* the field is optional: a default value or a default factory
HasDefault(f) == f.default # "PydanticUndefined" \/ f.default_factory

\* a string that is neither None nor empty
Present(v) == v # None /\ v # Str("")

\* C1: for every field whose declared type is list[T], the returned element
\* has minOccurs="0" and maxOccurs="unbounded", with or without a default.
C1_RepeatedOccurs ==
    FieldCall /\ IsRepeated(args.field_info.annotation) =>
        /\ Returned
        /\ Has(ret, "minOccurs") /\ Get(ret, "minOccurs") = Str("0")
        /\ Has(ret, "maxOccurs") /\ Get(ret, "maxOccurs") = Str("unbounded")

\* the name the precedence of C6 gives a field descriptor
ExpectedFieldName(f) ==
    IF f.entity
    THEN IF Present(f.path) THEN f.path ELSE f.alias
    ELSE IF Present(f.alias) THEN f.alias
    ELSE IF f.has_name THEN Str(f.name)
    ELSE Str("Unknown")

C7_NonRepeatedOccurs ==
    FieldCall /\ NonRepeated(args.field_info.annotation) =>
        /\ Returned
        /\ ~Has(ret, "maxOccurs")
        /\ HasDefault(args.field_info) =>
               Has(ret, "minOccurs") /\ Get(ret, "minOccurs") = Str("0")
        /\ ~HasDefault(args.field_info) => ~Has(ret, "minOccurs")

\* the wire tag name of a model class: its tag override when one is set,
\* its own type name otherwise
WireTagName(c) ==
    IF classes[c].has_xml_tag /\ classes[c].xml_tag # None
    THEN classes[c].xml_tag
    ELSE Str(classes[c].name)

\* C3: the name of the element of a model is the model's wire tag name,
\* never None.
C3_ModelName ==
    ModelCall /\ Returned => Get(ret, "name") = WireTagName(args.model.id)

RECURSIVE Shape(_, _)

\* e is the tree of declared type t: a model gives no type attribute and one
\* complexType holding one sequence with one child per declared field, in
\* declared order, each the element generated for that field and itself of
\* the shape of the field's type; any other type gives a type attribute and
\* no children
Shape(e, t) ==
    IF t.kind = "XmlModelMeta"
    THEN LET fields == classes[t.id].model_fields
         IN  /\ ~Has(e, "type")
             /\ Len(e.children) = 1
             /\ e.children[1].tag = "xs:complexType"
             /\ Len(e.children[1].children) = 1
             /\ e.children[1].children[1].tag = "xs:sequence"
             /\ Len(e.children[1].children[1].children) = Len(fields)
             /\ \A i \in 1..Len(fields) :
                    /\ e.children[1].children[1].children[i] =
                           generate_xsd_element(None, fields[i].info, 1)
                    /\ Shape(e.children[1].children[1].children[i],
                             fields[i].info.annotation)
    ELSE Len(e.children) = 0 /\ Has(e, "type")

\* C8: the element of a model has no type attribute and exactly one
\* complexType with exactly one sequence whose children are the elements of
\* the model's fields in declared order, at every nesting level; the element
\* of a non-model type has a type attribute and no children.
C8_FieldsInDeclaredOrder ==
    ModelCall /\ Returned => Shape(ret, args.model)

\* a model with two differently named fields, the second a nested model
\* that has a field of its own
C8_Witness ==
    /\ ModelCall /\ Returned
    /\ Len(classes[args.model.id].model_fields) = 2
    /\ classes[args.model.id].model_fields[1].info.annotation = Type("int")
    /\ classes[args.model.id].model_fields[2].info.annotation.kind = "XmlModelMeta"
    /\ Len(ret.children[1].children[1].children[2].children[1].children[1].children) > 0

\* C9: every call of generate_xsd_element on a model returns an element:
\* it never raises, whatever models the fields nest.
C9_Total == ModelCall => Returned

-----------------------------------------------------------------------------
(* Properties of generate_wsdl *)

\* generate_wsdl was called and returned the tree
WsdlReturned == call = "generate_wsdl" /\ ~IsException(ret)

\* the children of e with a tag
ChildrenWithTag(e, tag) == SelectSeq(e.children, LAMBDA x : x.tag = tag)

\* the children of e that are wsdl:input or wsdl:output, as (tag, message)
InputsOutputs(e) ==
    LET io == SelectSeq(e.children, LAMBDA x : x.tag \in {"wsdl:input", "wsdl:output"})
    IN  [k \in 1..Len(io) |-> <<io[k].tag, io[k].attrib["message"]>>]

\* the roles of all operations whose model is not None, in order
PresentRoles(methods) ==
    Flatten([i \in 1..Len(methods) |->
                SelectSeq([j \in 1..Len(methods[i].models) |->
                              [method |-> methods[i].method,
                               action |-> methods[i].models[j].action,
                               model |-> methods[i].models[j].model]],
                          LAMBDA r : r.model # None)])

\* the classes that are a request or response of at least one operation
Referenced(methods) ==
    {c \in ClassIds : \E i \in 1..Len(methods) : \E j \in 1..Len(methods[i].models) :
        methods[i].models[j].model = Model(c)}

\* the sequences that list every member of S once
Listings(S) ==
    {p \in [1..Cardinality(S) -> S] : \A a, b \in 1..Cardinality(S) : p[a] = p[b] => a = b}

\* the role's element tag
RoleTag(action) == IF action = "request" THEN "wsdl:input" ELSE "wsdl:output"

\* C2: wsdl:types holds one xs:schema as its only child, and the children
\* of that schema are the elements of the referenced models, each model once,
\* however many operations and roles reference it.
C2_EachModelOnce ==
    WsdlReturned =>
        LET types_element == ret.children[2]
            schema == types_element.children[1]
        IN  /\ types_element.tag = "wsdl:types"
            /\ Len(types_element.children) = 1
            /\ schema.tag = "xs:schema"
            /\ Len(schema.children) = Cardinality(Referenced(args.methods))
            /\ \E p \in Listings(Referenced(args.methods)) :
                   schema.children =
                       [k \in 1..Len(p) |-> generate_xsd_element(Model(p[k]), None, 1)]

\* Foo is the request of two operations and Bar a response: two children
C2_Witness ==
    /\ WsdlReturned
    /\ Len(args.methods) = 2
    /\ args.methods[1].models =
           <<[action |-> "request", model |-> Model("c1")],
             [action |-> "response", model |-> Model("c2")]>>
    /\ args.methods[2].models = <<[action |-> "request", model |-> Model("c1")]>>
    /\ Len(ret.children[2].children[1].children) = 2

\* C4: every wsdl:message has exactly one wsdl:part, whose element
\* attribute is the wire tag name of the role's model and the name attribute
\* of the schema element generated for that model.
C4_PartPointsToElement ==
    WsdlReturned =>
        LET messages == ChildrenWithTag(ret, "wsdl:message")
            roles == PresentRoles(args.methods)
        IN  /\ Len(messages) = Len(roles)
            /\ \A k \in 1..Len(messages) :
                   /\ Len(messages[k].children) = 1
                   /\ messages[k].children[1].tag = "wsdl:part"
                   /\ messages[k].children[1].attrib["element"] =
                          WireTagName(roles[k].model.id)
                   /\ messages[k].children[1].attrib["element"] =
                          Get(generate_xsd_element(roles[k].model, None, 1), "name")

\* the operation has a request model and no response model
RequestOnly(models) ==
    /\ \E j \in 1..Len(models) : models[j].action = "request" /\ models[j].model # None
    /\ \A j \in 1..Len(models) : models[j].action = "response" => models[j].model = None

\* C5: a role whose model is None gets no wsdl:message, no portType
\* input/output and no binding input/output, and registers no model; an
\* operation with a request and no response has one input and no output in
\* its portType operation and in its binding operation; every operation
\* still has its portType operation, its binding and its port.
C5_AbsentRolesSkipped ==
    WsdlReturned =>
        LET methods == args.methods
            messages == ChildrenWithTag(ret, "wsdl:message")
            bindings == ChildrenWithTag(ret, "wsdl:binding")
            operations == ret.children[3].children
            ports == ret.children[4].children
        IN  /\ Len(operations) = Len(methods)
            /\ Len(bindings) = Len(methods)
            /\ Len(ports) = Len(methods)
            /\ Len(messages) = Len(PresentRoles(methods))
            /\ Len(ret.children[2].children[1].children) = Cardinality(Referenced(methods))
            /\ \A i \in 1..Len(methods) :
                   /\ operations[i].tag = "wsdl:operation"
                   /\ ports[i].tag = "wsdl:port"
                   /\ \A j \in 1..Len(methods[i].models) :
                          methods[i].models[j].model = None =>
                              /\ \A k \in 1..Len(messages) :
                                     messages[k].attrib["name"] #
                                         Str(methods[i].method \o Title(methods[i].models[j].action))
                              /\ \A k \in 1..Len(operations[i].children) :
                                     operations[i].children[k].tag #
                                         RoleTag(methods[i].models[j].action)
                              /\ \A k \in 1..Len(bindings[i].children[2].children) :
                                     bindings[i].children[2].children[k].tag #
                                         RoleTag(methods[i].models[j].action)
                   /\ RequestOnly(methods[i].models)
                      => /\ Len(InputsOutputs(operations[i])) = 1
                         /\ InputsOutputs(operations[i])[1][1] = "wsdl:input"
                         /\ Len(InputsOutputs(bindings[i].children[2])) = 1
                         /\ InputsOutputs(bindings[i].children[2])[1][1] = "wsdl:input"

\* an operation with a request model and a response of None: one input
C5_Witness ==
    /\ WsdlReturned
    /\ Len(args.methods) = 1
    /\ args.methods[1].models =
           <<[action |-> "request", model |-> Model("c1")],
             [action |-> "response", model |-> None]>>
    /\ InputsOutputs(ret.children[3].children[1]) = <<<<"wsdl:input", Str("AddRequest")>>>>
    /\ Len(ChildrenWithTag(ret, "wsdl:message")) = 1

\* C10: over operations with distinct names and the roles "request" and
\* "response", the wsdl:message names are pairwise distinct, every message
\* attribute of a portType input/output names exactly one wsdl:message, and
\* each binding operation has the same input/output children with the same
\* message names, in the same order, as its portType operation.
C10_MessageNames ==
    WsdlReturned =>
        LET messages == ChildrenWithTag(ret, "wsdl:message")
            bindings == ChildrenWithTag(ret, "wsdl:binding")
            operations == ret.children[3].children
        IN  /\ \A a, b \in 1..Len(messages) :
                   messages[a].attrib["name"] = messages[b].attrib["name"] => a = b
            /\ \A i \in 1..Len(operations) :
                   /\ \A k \in 1..Len(InputsOutputs(operations[i])) :
                          Cardinality({a \in 1..Len(messages) :
                              messages[a].attrib["name"] = InputsOutputs(operations[i])[k][2]}) = 1
                   /\ InputsOutputs(bindings[i].children[2]) = InputsOutputs(operations[i])

\* two operations, each with a request and a response: four messages
C10_Witness ==
    /\ WsdlReturned
    /\ Len(args.methods) = 2
    /\ \A i \in 1..2 :
           /\ Len(args.methods[i].models) = 2
           /\ \A j \in 1..2 : args.methods[i].models[j].model # None
    /\ Len(ChildrenWithTag(ret, "wsdl:message")) = 4
    /\ InputsOutputs(ret.children[3].children[2]) =
           <<<<"wsdl:output", Str("SubResponse")>>, <<"wsdl:input", Str("SubRequest")>>>>

====
